---- MODULE Spec2Model ----
(***************************************************************************)
(* Smart-Bus-System: bus position resolver (api/mapbox.py), the bus        *)
(* location / start-trip / end-trip handlers (api/views_buses.py) and the  *)
(* tables they read and write (api/management/commands/setup_database.py). *)
(*                                                                         *)
(* Units: distances are integers in tenths of a meter, ETAs are integers   *)
(* in hundredths of a minute, so that round(x) and round(x, 1) of the      *)
(* source are real conversions.  SQL NULL / Python None is NULL.           *)
(***************************************************************************)
EXTENDS Integers, Sequences, FiniteSets, TLC

NULL == -1

\* ---------------------------------------------------------------- bounds
MaxRows == 3         \* cap on the number of rows of bus_locations
MaxSeq == 4          \* largest sequence_number of a route stop in a resolver call
MaxStops == 3        \* longest stop list handed to the resolver
MaxPointer == 5      \* largest stored pointer offered to the resolver's caller
MaxBatch == 25       \* longest list of upcoming stops in a batch ETA call

\* ------------------------------------------------------ program constants
\* a threshold of 30 m in place of the code's 150 m
AT_STOP_THRESHOLD_30m == 30 * 10

AT_STOP_THRESHOLD == 1500        \* 150 meters
PASSED_ETA_THRESHOLD == 100      \* 1.0 minute
SPEED_MAX == 99999               \* 999.99, in hundredths
HEADING_MAX == 36000             \* 360, in hundredths

Buses == {1, 2}                  \* two buses, so that two can share a route
Routes == {1, 2}
Statuses == {"active", "inactive", "maintenance"}

\* A reading is what get_eta_to_stop (or the inline haversine fallback)
\* yields for one stop from the bus location: distance and ETA.
Readings ==
  { [distance |-> 0,    eta |-> 0],
    [distance |-> 1000, eta |-> 30],     \* 100.0 m, 0.30 min
    [distance |-> 1500, eta |-> 50],     \* 150.0 m, 0.50 min
    [distance |-> 1504, eta |-> 47],     \* 150.4 m, 0.47 min (unrounded fallback)
    [distance |-> 3080, eta |-> 96],     \* 308.0 m, 0.96 min (unrounded fallback)
    [distance |-> 5000, eta |-> 160] }   \* 500.0 m, 1.60 min

\* ------------------------------------------------------------- conversions
\* Python round(): to the nearest multiple of unit, ties to the even multiple.
RoundTo(x, unit) ==
  LET q == x \div unit
      r == x % unit
  IN  IF 2 * r < unit THEN q * unit
      ELSE IF 2 * r > unit THEN (q + 1) * unit
      ELSE IF q % 2 = 0 THEN q * unit ELSE (q + 1) * unit

\* round(distance): whole meters
\* the distance reported as computed, without rounding
round_distance_exact(d) == d

round_distance(d) == RoundTo(d, 10)

\* round(eta, 1): tenths of a minute
round_eta(e) == RoundTo(e, 10)

\* Python `x or 0` on an integer-or-None
OrZero(x) == IF x = NULL THEN 0 ELSE x

\* min(max(float(x or 0), 0), hi)
\* min(max(x or 0, 0), x): no upper bound applied
Clamp_unbounded(x, hi) ==
  LET v == OrZero(x) IN IF v > 0 THEN v ELSE 0

Clamp(x, hi) ==
  LET v == OrZero(x)
      lo == IF v > 0 THEN v ELSE 0
  IN  IF lo < hi THEN lo ELSE hi

\* ------------------------------------------------------------------ sorting
\* sorted(route_stops, key=lambda x: x['sequence']): stable insertion.
RECURSIVE InsertBySequence(_, _)
InsertBySequence(s, sorted) ==
  IF sorted = << >> THEN << s >>
  ELSE IF Head(sorted).sequence <= s.sequence
       THEN << Head(sorted) >> \o InsertBySequence(s, Tail(sorted))
       ELSE << s >> \o sorted

RECURSIVE SortBySequence(_)
SortBySequence(l) ==
  IF l = << >> THEN << >>
  ELSE InsertBySequence(l[Len(l)], SortBySequence(SubSeq(l, 1, Len(l) - 1)))
\* ----------------------------------------------------------------- resolver
\* The parameters get_bus_position_on_route declares, and the keyword
\* arguments BusLocationView.post calls it with.
get_bus_position_on_route_params == {"bus_location", "route_stops"}

position_call_kwargs == {"bus_location", "route_stops", "stop_seq"}

\* A Python call with a keyword the callee does not declare raises TypeError.
CallRaisesTypeError(kwargs, params) == ~(kwargs \subseteq params)

\* The result for an empty stop list.
\* a default result that points at no stop
EmptyRoutePosition_no_stop ==
  [ last_passed_stop |-> 0, next_stop |-> 0, is_at_stop |-> FALSE,
    current_stop_sequence |-> 0, distance_to_next |-> NULL, eta_to_next |-> NULL ]

EmptyRoutePosition ==
  [ last_passed_stop |-> 0, next_stop |-> 1, is_at_stop |-> FALSE,
    current_stop_sequence |-> 1, distance_to_next |-> NULL, eta_to_next |-> NULL ]

\* One entry per stop, in sorted order: the reading taken from bus_location.
\* bus_location is the fix, given as the reading it yields for each stop_id.
StopDistances(bus_location, stops) ==
  [ i \in 1..Len(stops) |->
      [ sequence |-> stops[i].sequence,
        stop_id  |-> stops[i].stop_id,
        distance |-> bus_location[stops[i].stop_id].distance,
        eta      |-> bus_location[stops[i].stop_id].eta ] ]

\* a minimum taken from the end of the list: the last minimum
NearestOf_last(stop_distances) ==
  LET i == CHOOSE k \in 1..Len(stop_distances) :
             /\ \A j \in 1..Len(stop_distances) :
                  stop_distances[j].distance >= stop_distances[k].distance
             /\ \A j \in (k + 1)..Len(stop_distances) :
                  stop_distances[j].distance > stop_distances[k].distance
  IN  stop_distances[i]

\* min(stop_distances, key=lambda x: x['distance']): the first minimum.
NearestOf(stop_distances) ==
  LET i == CHOOSE k \in 1..Len(stop_distances) :
             /\ \A j \in 1..Len(stop_distances) :
                  stop_distances[j].distance >= stop_distances[k].distance
             /\ \A j \in 1..(k - 1) :
                  stop_distances[j].distance > stop_distances[k].distance
  IN  stop_distances[i]

\* next(i for i, s in enumerate(stop_distances) if s.sequence == nearest.sequence),
\* 1-based here.
NearestIdx(stop_distances, nearest) ==
  CHOOSE k \in 1..Len(stop_distances) :
    /\ stop_distances[k].sequence = nearest.sequence
    /\ \A j \in 1..(k - 1) : stop_distances[j].sequence # nearest.sequence

get_bus_position_on_route(bus_location, route_stops) ==
  IF route_stops = << >> THEN EmptyRoutePosition
  ELSE
    LET stops == SortBySequence(route_stops)
        stop_distances == StopDistances(bus_location, stops)
        nearest == NearestOf(stop_distances)
    IN
    IF nearest.distance <= AT_STOP_THRESHOLD THEN
      [ last_passed_stop |-> nearest.sequence,
        next_stop |-> IF nearest.sequence < Len(stops)
                      THEN nearest.sequence + 1 ELSE nearest.sequence,
        is_at_stop |-> TRUE,
        current_stop_sequence |-> nearest.sequence,
        distance_to_next |-> 0,
        eta_to_next |-> 0 ]
    ELSE
      LET nearest_idx == NearestIdx(stop_distances, nearest) IN
      IF nearest_idx = 1 THEN
        [ last_passed_stop |-> 0,
          next_stop |-> nearest.sequence,
          is_at_stop |-> FALSE,
          current_stop_sequence |-> nearest.sequence,
          distance_to_next |-> round_distance(nearest.distance),
          eta_to_next |-> round_eta(nearest.eta) ]
      ELSE IF nearest_idx = Len(stop_distances) THEN
        [ last_passed_stop |-> stop_distances[nearest_idx - 1].sequence,
          next_stop |-> nearest.sequence,
          is_at_stop |-> FALSE,
          current_stop_sequence |-> nearest.sequence,
          distance_to_next |-> round_distance(nearest.distance),
          eta_to_next |-> round_eta(nearest.eta) ]
      ELSE
        LET prev_stop == stop_distances[nearest_idx - 1]
            next_stop == stop_distances[nearest_idx + 1]
        IN
        IF prev_stop.distance > nearest.distance THEN
          [ last_passed_stop |-> prev_stop.sequence,
            next_stop |-> nearest.sequence,
            is_at_stop |-> FALSE,
            current_stop_sequence |-> nearest.sequence,
            distance_to_next |-> round_distance(nearest.distance),
            eta_to_next |-> round_eta(nearest.eta) ]
        ELSE
          [ last_passed_stop |-> nearest.sequence,
            next_stop |-> next_stop.sequence,
            is_at_stop |-> FALSE,
            current_stop_sequence |-> next_stop.sequence,
            distance_to_next |-> round_distance(next_stop.distance),
            eta_to_next |-> round_eta(next_stop.eta) ]
\* -------------------------------------------------------------------- state
VARIABLES
  buses,          \* table buses: bus_id -> [route_id, status]
  bus_locations,  \* table bus_locations: rows in location_id order
  route_stops,    \* table route_stops: set of rows
  response,       \* the response of the last handler that ran
  call,           \* arguments of a direct call of a function or view
  position,       \* result of a direct resolver call
  eta_results,    \* result of a direct call of an ETA computation
  inflight        \* location requests in progress, by request id

vars == << buses, bus_locations, route_stops, response, call, position,
          eta_results, inflight >>

StopIds == {1, 2}            \* stops placed on routes in the trip model
InvalidRoute == 9            \* a route_id with no row in routes

\* Fixes offered to the location handler: the reading the fix yields per stop.
FixReadings ==
  { [distance |-> 0,    eta |-> 0],
    [distance |-> 5000, eta |-> 160] }

Fixes == [StopIds -> FixReadings]

\* latitude / longitude as sent by the device; NULL when absent.
CoordInputs == { << NULL, 1 >>, << 1, NULL >>, << 1, 1 >> }

\* speed / heading as sent by the device, in hundredths; NULL when absent.
TelemetryInputs ==
  { [speed |-> NULL,   heading |-> NULL],
    [speed |-> -500,   heading |-> -500],
    [speed |-> 120000, heading |-> 40000] }

NoCall == [ route_stops |-> << >>, bus_location |-> << >>, stop_seq |-> NULL ]

NoPosition ==
  [ last_passed_stop |-> NULL, next_stop |-> NULL, is_at_stop |-> FALSE,
    current_stop_sequence |-> NULL, distance_to_next |-> NULL, eta_to_next |-> NULL ]

Resp(op, bus_id, status, seq) ==
  [ op |-> op, bus_id |-> bus_id, status |-> status, current_stop_sequence |-> seq ]

\* ------------------------------------------------------------------ queries
\* Indices of the rows of bus_locations that join with bus bus_id.
JoinRows(bus_id) ==
  { i \in 1..Len(bus_locations) : bus_locations[i].bus_id = bus_id }

RECURSIVE SetToSeq(_)
SetToSeq(S) ==
  IF S = {} THEN << >>
  ELSE LET x == CHOOSE y \in S : TRUE IN << x >> \o SetToSeq(S \ {x})

\* SELECT rs.sequence_number as sequence, rs.stop_id ... WHERE rs.route_id = r
\* ORDER BY rs.sequence_number
StopsOfRoute(r) ==
  SortBySequence(SetToSeq(
    { [sequence |-> rs.sequence_number, stop_id |-> rs.stop_id] :
        rs \in { x \in route_stops : x.route_id = r } }))

LocationRow(bus_id, latitude, longitude, speed, heading, seq) ==
  [ bus_id |-> bus_id, latitude |-> latitude, longitude |-> longitude,
    speed |-> speed, heading |-> heading, current_stop_sequence |-> seq ]

\* INSERT INTO bus_locations ... ON DUPLICATE KEY UPDATE ...: the table's only
\* unique key is the auto-increment location_id, which the statement does not
\* supply, so no key is ever duplicated and the row is appended.
UpsertLocation(row) == Append(bus_locations, row)

\* UPDATE route_stops SET passed = v WHERE route_id = r [AND sequence_number
\* in seqs]
\* UPDATE route_stops SET passed = v without the route in the WHERE clause
SetPassed_any_route(r, seqs, v) ==
  { IF rs.sequence_number \in seqs
    THEN [rs EXCEPT !.passed = v] ELSE rs : rs \in route_stops }

SetPassed(r, seqs, v) ==
  { IF rs.route_id = r /\ rs.sequence_number \in seqs
    THEN [rs EXCEPT !.passed = v] ELSE rs : rs \in route_stops }

AllSequences == { rs.sequence_number : rs \in route_stops }

\* the marking block of the location handler: check (SELECT passed), then set
MarkPassedStop(route_id, current_stop_sequence, eta_to_next) ==
  LET at_seq(rs) == rs.route_id = route_id
                    /\ rs.sequence_number = current_stop_sequence
      marks == /\ eta_to_next # NULL
               /\ eta_to_next < PASSED_ETA_THRESHOLD
               /\ \E rs \in route_stops : at_seq(rs) /\ ~rs.passed
  IN  IF marks THEN SetPassed(route_id, {current_stop_sequence}, TRUE)
      ELSE route_stops

\* ----------------------------------------------------------------- handlers
\* POST /api/buses/{id}/location/
BusLocationView_post(bus_id, latitude, longitude, telemetry, fix) ==
  /\ UNCHANGED << buses, call, position, eta_results, inflight >>
  /\ IF latitude = NULL \/ longitude = NULL THEN
       /\ response' = Resp("location", bus_id, 400, NULL)
       /\ UNCHANGED << bus_locations, route_stops >>
     ELSE IF JoinRows(bus_id) = {} THEN
       /\ response' = Resp("location", bus_id, 404, NULL)
       /\ UNCHANGED << bus_locations, route_stops >>
     ELSE
       \* execute_query_one over the join: one row, in no specified order
       \E i \in JoinRows(bus_id) :
         LET bus == [ route_id |-> buses[bus_id].route_id,
                      current_stop_sequence |-> bus_locations[i].current_stop_sequence ]
             speed == Clamp(telemetry.speed, SPEED_MAX)
             heading == Clamp(telemetry.heading, HEADING_MAX)
             current_stop_seq_from_db == OrZero(bus.current_stop_sequence)
             stops == IF bus.route_id # NULL THEN StopsOfRoute(bus.route_id) ELSE << >>
             resolves == bus.route_id # NULL /\ stops # << >>
         IN
         IF resolves /\ CallRaisesTypeError(position_call_kwargs,
                                            get_bus_position_on_route_params) THEN
           \* unhandled TypeError: the request ends with a 500, nothing written
           /\ response' = Resp("location", bus_id, 500, NULL)
           /\ UNCHANGED << bus_locations, route_stops >>
         ELSE
           LET pos == IF resolves THEN get_bus_position_on_route(fix, stops)
                      ELSE NoPosition
               current_stop_sequence == IF resolves THEN pos.current_stop_sequence ELSE NULL
               eta_to_next == pos.eta_to_next
           IN
           /\ Len(bus_locations) < MaxRows
           /\ route_stops' = IF resolves
                             THEN MarkPassedStop(bus.route_id, current_stop_sequence,
                                                 eta_to_next)
                             ELSE route_stops
           /\ bus_locations' = UpsertLocation(
                LocationRow(bus_id, latitude, longitude, speed, heading,
                            current_stop_sequence))
           \* "Get the location record": again one row of the bus, unordered
           /\ \E j \in { k \in 1..Len(bus_locations') : bus_locations'[k].bus_id = bus_id } :
                response' = Resp("location", bus_id, 201,
                                 bus_locations'[j].current_stop_sequence)

\* POST /api/buses/{id}/start-trip/ ; route_in = NULL when the request has no route_id
BusStartTripView_post(bus_id, route_in) ==
  LET route_id == IF route_in = NULL THEN buses[bus_id].route_id ELSE route_in IN
  /\ UNCHANGED << call, position, eta_results, inflight >>
  /\ IF route_id = NULL \/ route_id \notin Routes THEN
       /\ response' = Resp("start-trip", bus_id, 400, NULL)
       /\ UNCHANGED << buses, bus_locations, route_stops >>
     ELSE
       /\ Len(bus_locations) < MaxRows
       /\ buses' = [buses EXCEPT ![bus_id] = [route_id |-> route_id, status |-> "active"]]
       /\ bus_locations' = UpsertLocation(LocationRow(bus_id, 0, 0, 0, 0, 0))
       /\ route_stops' = SetPassed(route_id, AllSequences, FALSE)
       /\ response' = Resp("start-trip", bus_id, 200, 0)

\* POST /api/buses/{id}/end-trip/
BusEndTripView_post(bus_id, status_in) ==
  LET new_status == IF status_in \in {"inactive", "maintenance"}
                    THEN status_in ELSE "inactive"
  IN
  /\ buses' = [buses EXCEPT ![bus_id].status = new_status]
  /\ bus_locations' =
       [ i \in 1..Len(bus_locations) |->
           IF bus_locations[i].bus_id = bus_id
           THEN [bus_locations[i] EXCEPT !.speed = 0, !.heading = 0]
           ELSE bus_locations[i] ]
  /\ response' = Resp("end-trip", bus_id, 200, NULL)
  /\ UNCHANGED << route_stops, call, position, eta_results, inflight >>

\* PATCH /api/buses/{id}/ with a route_id (NULL unassigns the bus)
BusDetailView_patch(bus_id, route_in) ==
  /\ UNCHANGED << bus_locations, route_stops, call, position, eta_results,
                  inflight >>
  /\ IF route_in # NULL /\ route_in \notin Routes THEN
       /\ response' = Resp("patch", bus_id, 400, NULL)
       /\ UNCHANGED buses
     ELSE
       /\ buses' = [buses EXCEPT ![bus_id].route_id = route_in]
       /\ response' = Resp("patch", bus_id, 200, NULL)

\* ------------------------------------------------------- trip specification
InitRouteStops ==
  { [route_id |-> 1, stop_id |-> s, sequence_number |-> s, passed |-> FALSE] :
      s \in StopIds }

Init ==
  /\ buses = [b \in Buses |-> [route_id |-> NULL, status |-> "inactive"]]
  /\ bus_locations = << >>
  /\ route_stops = InitRouteStops
  /\ response = Resp("none", 0, 0, NULL)
  /\ call = NoCall
  /\ position = NoPosition
  /\ eta_results = << >>
  /\ inflight = << >>

LocationUpdate ==
  \E b \in Buses, c \in CoordInputs, t \in TelemetryInputs, fix \in Fixes :
    BusLocationView_post(b, c[1], c[2], t, fix)

StartTrip ==
  \E b \in Buses, r \in Routes \cup {NULL, InvalidRoute} : BusStartTripView_post(b, r)

EndTrip ==
  \E b \in Buses, st \in Statuses : BusEndTripView_post(b, st)

PatchBus ==
  \E b \in Buses, r \in Routes \cup {NULL, InvalidRoute} : BusDetailView_patch(b, r)

Next == LocationUpdate \/ StartTrip \/ EndTrip \/ PatchBus

Spec == Init /\ [][Next]_vars
\* --------------------------------------------------- resolver specification
\* Stop lists as BusLocationView.post builds them from route_stops: ordered by
\* sequence_number, the numbers distinct and at least 1 but not necessarily
\* dense (RouteStopsView.post accepts any sequence_number >= 1).
StopListOf(S) ==
  SortBySequence(SetToSeq({ [sequence |-> q, stop_id |-> 100 + q] : q \in S }))

StopSets == { T \in SUBSET (1..MaxSeq) : Cardinality(T) <= MaxStops }

ResolverCall(S, f, p) ==
  [ route_stops |-> StopListOf(S), bus_location |-> f, stop_seq |-> p ]

InitResolver ==
  /\ buses = [b \in Buses |-> [route_id |-> NULL, status |-> "inactive"]]
  /\ bus_locations = << >>
  /\ route_stops = InitRouteStops
  /\ response = Resp("none", 0, 0, NULL)
  /\ \E S \in StopSets :
       \E f \in [ { 100 + q : q \in S } -> Readings ], p \in 0..MaxPointer :
         call = ResolverCall(S, f, p)
  /\ position = NoPosition
  /\ eta_results = << >>
  /\ inflight = << >>

\* get_bus_position_on_route(bus_location, route_stops) applied to the call
Resolve ==
  /\ position = NoPosition
  /\ position' = get_bus_position_on_route(call.bus_location, call.route_stops)
  /\ UNCHANGED << buses, bus_locations, route_stops, response, call,
                  eta_results, inflight >>

NextResolver == Resolve

SpecResolver == InitResolver /\ [][NextResolver]_vars

\* ------------------------------------------------- vocabulary of the claims
Resolved == position # NoPosition

CallDistance(stop) == call.bus_location[stop.stop_id].distance

CallEta(stop) == call.bus_location[stop.stop_id].eta

CallStops == { call.route_stops[i] : i \in 1..Len(call.route_stops) }

\* the stops the pointer has not advanced past
Candidates == { s \in CallStops : s.sequence >= call.stop_seq }

IsNearestIn(stop, S) ==
  /\ stop \in S
  /\ \A other \in S : CallDistance(stop) <= CallDistance(other)

\* the stop the resolver takes as nearest: minimum distance, first in sequence
IsNearest(stop) ==
  /\ IsNearestIn(stop, CallStops)
  /\ \A other \in CallStops :
       CallDistance(other) = CallDistance(stop) => other.sequence >= stop.sequence

Following(stop) == { s \in CallStops : s.sequence > stop.sequence }

Max0(x) == IF x > 0 THEN x ELSE 0
MinSequence(S) == CHOOSE q \in { s.sequence : s \in S } :
                    \A r \in { s.sequence : s \in S } : q <= r

MaxSequence(S) == CHOOSE q \in { s.sequence : s \in S } :
                    \A r \in { s.sequence : s \in S } : q >= r

Preceding(stop) == { s \in CallStops : s.sequence < stop.sequence }

\* out is a multiple of unit no farther than half a unit from x
WithinHalf(out, x, unit) ==
  /\ out % unit = 0
  /\ 2 * (out - x) <= unit
  /\ 2 * (x - out) <= unit

\* ------------------------------------------------------------------- claims

\* C6: for a non-empty stop list and last pointer p the resolver looks only at
\* the stops with sequence >= p and takes the nearest of them, so the
\* current_stop_sequence it returns is never below p.
C6_NearestAmongCandidates ==
  (Resolved /\ Candidates # {}) =>
    /\ position.current_stop_sequence >= call.stop_seq
    /\ \E c \in Candidates :
         /\ IsNearestIn(c, Candidates)
         /\ position.current_stop_sequence = c.sequence

\* C7 as stated: is_at_stop is true exactly when the nearest stop is at most
\* 30 meters away, and then current_stop_sequence is that stop's sequence.
C7_AtStopWithin30m ==
  (Resolved /\ CallStops # {}) =>
    \A n \in CallStops : IsNearest(n) =>
      /\ position.is_at_stop <=> (CallDistance(n) <= 30 * 10)
      /\ position.is_at_stop => position.current_stop_sequence = n.sequence

\* C7 as amended: is_at_stop is true exactly when the nearest stop of the list
\* is at most 150 meters away, and then current_stop_sequence is that stop's
\* sequence; for any larger distance is_at_stop is false.
C7_AtStopWithin150m ==
  (Resolved /\ CallStops # {}) =>
    \A n \in CallStops : IsNearest(n) =>
      /\ position.is_at_stop <=> (CallDistance(n) <= 150 * 10)
      /\ position.is_at_stop => position.current_stop_sequence = n.sequence

\* C7 witness: a resolved call whose nearest stop is 100 m away (beyond 30 m,
\* within 150 m) and is reported as occupied.
C7_Witness ==
  /\ Resolved
  /\ position.is_at_stop
  /\ Cardinality(CallStops) >= 2
  /\ \E n \in CallStops : IsNearest(n) /\ CallDistance(n) = 1000
                          /\ position.current_stop_sequence = n.sequence

\* C8: whenever is_at_stop is true, distance_to_next and eta_to_next are 0 and
\* next_stop is the sequence of the stop that follows nearest on the route if
\* there is one, otherwise nearest's own sequence.
C8_AtStopOutput ==
  (Resolved /\ position.is_at_stop) =>
    /\ position.distance_to_next = 0
    /\ position.eta_to_next = 0
    /\ \A n \in CallStops : IsNearest(n) =>
         position.next_stop = IF Following(n) # {}
                              THEN MinSequence(Following(n)) ELSE n.sequence

\* C9: when the nearest stop is farther than the at-stop threshold, the result
\* has is_at_stop false, current_stop_sequence = nearest.sequence,
\* last_passed_stop = max(0, nearest.sequence - 1), and distance_to_next and
\* eta_to_next equal to the distance and ETA of nearest.
C9_BetweenStopsOutput ==
  (Resolved /\ CallStops # {}) =>
    \A n \in CallStops : (IsNearest(n) /\ CallDistance(n) > 150 * 10) =>
      /\ ~position.is_at_stop
      /\ position.current_stop_sequence = n.sequence
      /\ position.last_passed_stop = Max0(n.sequence - 1)
      /\ position.distance_to_next = CallDistance(n)
      /\ position.eta_to_next = CallEta(n)

\* C9 as amended: when the nearest stop is farther than the at-stop threshold
\* (150 m), is_at_stop is false, current_stop_sequence = nearest.sequence,
\* last_passed_stop is the sequence of the stop before nearest in the list (0
\* when nearest is the first stop), and distance_to_next and eta_to_next are
\* nearest's distance rounded to whole meters and ETA rounded to one decimal.
C9_BetweenStopsRounded ==
  (Resolved /\ CallStops # {}) =>
    \A n \in CallStops : (IsNearest(n) /\ CallDistance(n) > 150 * 10) =>
      /\ ~position.is_at_stop
      /\ position.current_stop_sequence = n.sequence
      /\ position.last_passed_stop =
           IF Preceding(n) = {} THEN 0 ELSE MaxSequence(Preceding(n))
      /\ WithinHalf(position.distance_to_next, CallDistance(n), 10)
      /\ WithinHalf(position.eta_to_next, CallEta(n), 10)

\* C9 witness: the bus is between stops, nearest is not the first stop of a
\* list with a gap before it, and nearest's distance is not a whole meter.
C9_Witness ==
  /\ Resolved
  /\ ~position.is_at_stop
  /\ \E n \in CallStops :
       /\ IsNearest(n)
       /\ CallDistance(n) = 1504
       /\ Preceding(n) # {}
       /\ MaxSequence(Preceding(n)) < n.sequence - 1
       /\ position.last_passed_stop = MaxSequence(Preceding(n))
       /\ position.distance_to_next = 1500

\* C10: when the last pointer is beyond every stop of a non-empty route, the
\* pointer to store is the previous pointer and distance and ETA are null.
C10_RouteCompleteHoldsPointer ==
  (Resolved /\ CallStops # {} /\ Candidates = {}) =>
    /\ position.current_stop_sequence = call.stop_seq
    /\ position.distance_to_next = NULL
    /\ position.eta_to_next = NULL
\* --------------------------------------------- vocabulary of the trip claims
RowsOf(table, bus_id) == { i \in 1..Len(table) : table[i].bus_id = bus_id }

\* new is a pointer not below old (NULL is no pointer; a NULL old is read as 0)
PointerAtLeast(new, old) == new # NULL /\ new >= OrZero(old)

RouteHasStops(bus_id) ==
  buses[bus_id].route_id # NULL /\ StopsOfRoute(buses[bus_id].route_id) # << >>

\* a step in which the location handler stored a row for some bus
LocationStored ==
  /\ response'.op = "location"
  /\ response'.status = 201
  /\ Len(bus_locations') = Len(bus_locations) + 1

\* C1: across location updates of one vehicle the stored current_stop_sequence
\* never decreases: every update writes a pointer greater than or equal to
\* the pointer stored before it.
C1_PointerNeverDecreases ==
  [][ LocationStored =>
        LET new == bus_locations'[Len(bus_locations')] IN
        \A i \in RowsOf(bus_locations, new.bus_id) :
          PointerAtLeast(new.current_stop_sequence,
                         bus_locations[i].current_stop_sequence) ]_vars

\* C3: when start-trip for a vehicle on a route has completed, every route
\* stop of that route has passed = FALSE and the vehicle's stored
\* current_stop_sequence is 0.
C3_StartTripResets ==
  (response.op = "start-trip" /\ response.status = 200) =>
    /\ \A rs \in route_stops :
         rs.route_id = buses[response.bus_id].route_id => ~rs.passed
    /\ \A i \in RowsOf(bus_locations, response.bus_id) :
         bus_locations[i].current_stop_sequence = 0

\* C4: a location update sets passed of the stop at the resolved
\* current_stop_sequence exactly when the resolved eta_to_next is below 1.0
\* minute and the flag was false; otherwise it changes no flag, and the flags
\* of all other stops are always left alone.
C4_MarksPassedBelowOneMinute ==
  [][ \A b \in Buses, t \in TelemetryInputs, fix \in Fixes :
        ( /\ BusLocationView_post(b, 1, 1, t, fix)
          /\ JoinRows(b) # {}
          /\ RouteHasStops(b) ) =>
          LET r == buses[b].route_id
              pos == get_bus_position_on_route(fix, StopsOfRoute(r))
              here(rs) == rs.route_id = r
                          /\ rs.sequence_number = pos.current_stop_sequence
              due == /\ pos.eta_to_next # NULL
                     /\ pos.eta_to_next < 100
                     /\ \E rs \in route_stops : here(rs) /\ ~rs.passed
          IN  route_stops' =
                IF due
                THEN { IF here(rs) THEN [rs EXCEPT !.passed = TRUE] ELSE rs :
                         rs \in route_stops }
                ELSE route_stops ]_vars

\* the stored pointers of a bus, in row order
PointersOf(table, bus_id) ==
  [ i \in RowsOf(table, bus_id) |-> table[i].current_stop_sequence ]

\* C5: after end-trip for a vehicle, no passed flag of its route and not its
\* pointer changes until the next start-trip of that vehicle, whatever
\* location updates arrive for it in between.
C5_FrozenAfterEndTrip ==
  [][ \A b \in Buses :
        ( /\ buses[b].status # "active"
          /\ buses'[b].status # "active"
          /\ response'.bus_id = b
          /\ response'.op = "location" ) =>
          /\ PointersOf(bus_locations', b) = PointersOf(bus_locations, b)
          /\ { rs \in route_stops' : rs.route_id = buses[b].route_id }
               = { rs \in route_stops : rs.route_id = buses[b].route_id } ]_vars
\* ------------------------------------------------ live provider and fallback
\* Raw provider values: distance in tenths of a meter, duration in seconds.
\* Coordinates are positions along one meridian in steps of 50 m; every
\* longitude of the model is the same.

\* n / d rounded to the nearest multiple of unit, ties to the even multiple
RoundRatio(n, d, unit) ==
  LET den == d * unit
      q == n \div den
      r == n % den
  IN  IF 2 * r < den THEN q * unit
      ELSE IF 2 * r > den THEN (q + 1) * unit
      ELSE IF q % 2 = 0 THEN q * unit ELSE (q + 1) * unit

MAX_WAYPOINTS == 25
DEFAULT_SPEED == 2500            \* 25 km/h, in hundredths
METERS_PER_STEP == 500           \* 50 m between neighbouring latitudes, in tenths

\* what the directions service yields: Unavailable, or a route
Unavailable == [ available |-> FALSE ]

Route(distance, duration) ==
  [ available |-> TRUE, distance |-> distance, duration |-> duration ]

LegsRoute(pattern) == [ available |-> TRUE, legs |-> pattern ]

\* An optional dict: None, or the dict d as Some(d); Get(o) is the dict.
None == << >>
Some(d) == << d >>
Get(o) == o[1]

\* one attempt against the directions service that is repeated once when it
\* fails
get_route_info_retry(outcome) ==
  IF ~outcome.available
  THEN [ result |-> None, attempts |-> 2 ]
  ELSE [ result |-> Some([ distance |-> RoundTo(outcome.distance, 10),
                           duration_minutes |->
                             RoundRatio(outcome.duration * 100, 60, 10) ]),
         attempts |-> 1 ]

\* one attempt against the directions service; outcome is what it yields
get_route_info(outcome) ==
  IF ~outcome.available
  THEN [ result |-> None, attempts |-> 1 ]
  ELSE [ result |-> Some([ distance |-> RoundTo(outcome.distance, 10),
                           duration_minutes |->
                             RoundRatio(outcome.duration * 100, 60, 10) ]),
         attempts |-> 1 ]

get_eta_to_stop(outcome) ==
  LET info == get_route_info(outcome) IN
  IF info.result # None
  THEN [ result |-> Some([ eta_minutes |-> Get(info.result).duration_minutes,
                           distance_meters |-> Get(info.result).distance ]),
         attempts |-> info.attempts ]
  ELSE [ result |-> None, attempts |-> info.attempts ]

Abs(x) == IF x < 0 THEN -x ELSE x

\* great-circle distance of two points of the meridian, in tenths of a meter
haversine_distance(lat1, lon1, lat2, lon2) == Abs(lat2 - lat1) * METERS_PER_STEP

\* distance * 1.0: the straight-line distance without the buffer, in
\* hundredths of a meter
adjusted_distance_unbuffered(distance) == distance * 10

\* distance * 1.3 for a distance in tenths of a meter: exact, in hundredths
\* of a meter
adjusted_distance(distance) == distance * 13

\* the body of fallback_eta after the haversine call
fallback_estimate(distance, speed_kmh) ==
  [ eta_minutes |-> RoundRatio(adjusted_distance(distance) * 60,
                               10 * speed_kmh, 10),
    distance_meters |-> RoundRatio(adjusted_distance(distance), 10, 10) ]

fallback_eta(lat1, lon1, lat2, lon2, speed_kmh) ==
  fallback_estimate(haversine_distance(lat1, lon1, lat2, lon2), speed_kmh)

\* float(bus['speed']) if bus['speed'] and float(bus['speed']) > 0 else 25
SpeedOrDefault(speed) == IF speed # NULL /\ speed > 0 THEN speed ELSE DEFAULT_SPEED

\* --------------------------------------------------------------- batch ETAs
\* The legs the directions service returns for a waypoint list: one per pair
\* of consecutive waypoints, leg i taken from pattern (repeated as needed).
ProviderLegs(n_waypoints, pattern) ==
  IF pattern = << >> THEN << >>
  ELSE [ i \in 1..(n_waypoints - 1) |-> pattern[((i - 1) % Len(pattern)) + 1] ]

\* the value of leg i alone, without accumulation
SumField_last(legs, i, field) == legs[i][field]

RECURSIVE SumField(_, _, _)
SumField(legs, i, field) ==
  IF i = 0 THEN 0 ELSE SumField(legs, i - 1, field) + legs[i][field]

get_multi_stop_route(waypoints, outcome) ==
  IF Len(waypoints) < 2 THEN [ result |-> None, attempts |-> 0 ]
  ELSE
    LET sent == IF Len(waypoints) > MAX_WAYPOINTS
                THEN SubSeq(waypoints, 1, MAX_WAYPOINTS) ELSE waypoints
    IN
    IF ~outcome.available THEN [ result |-> None, attempts |-> 1 ]
    ELSE
      LET route_legs == ProviderLegs(Len(sent), outcome.legs) IN
      [ attempts |-> 1, result |-> Some([ legs |->
          [ i \in 1..Len(route_legs) |->
              [ leg_index |-> i - 1,
                cumulative_distance |->
                  RoundTo(SumField(route_legs, i, "distance"), 10),
                cumulative_duration_minutes |->
                  RoundRatio(SumField(route_legs, i, "duration") * 100, 60, 10) ] ] ]) ]

get_etas_to_multiple_stops(bus_location, stop_locations, outcome) ==
  IF stop_locations = << >> THEN [ results |-> << >>, attempts |-> 0 ]
  ELSE
    LET waypoints == << bus_location >> \o
                     [ i \in 1..Len(stop_locations) |->
                         [ latitude |-> stop_locations[i].latitude,
                           longitude |-> stop_locations[i].longitude ] ]
        routed == get_multi_stop_route(waypoints, outcome)
        route_info == routed.result
    IN
    IF route_info = None \/ Get(route_info).legs = << >>
    THEN [ results |-> << >>, attempts |-> routed.attempts ]
    ELSE
      LET legs == Get(route_info).legs
          n == IF Len(stop_locations) < Len(legs)
               THEN Len(stop_locations) ELSE Len(legs)
      IN  [ attempts |-> routed.attempts,
            results |->
              [ i \in 1..n |->
                  [ stop_id |-> stop_locations[i].stop_id,
                    eta_minutes |-> legs[i].cumulative_duration_minutes,
                    distance_meters |-> legs[i].cumulative_distance ] ] ]

\* the fallback loop of RouteETAsView.get: segment by segment, summing the
\* rounded segment values and rounding the sums again
RECURSIVE FallbackCumulative(_, _, _, _)
FallbackCumulative(bus_location, upcoming_stops, speed_kmh, i) ==
  IF i = 0 THEN [ eta |-> 0, distance |-> 0 ]
  ELSE
    LET before == FallbackCumulative(bus_location, upcoming_stops, speed_kmh, i - 1)
        prev == IF i = 1 THEN bus_location ELSE upcoming_stops[i - 1]
        segment == fallback_eta(prev.latitude, prev.longitude,
                                upcoming_stops[i].latitude,
                                upcoming_stops[i].longitude, speed_kmh)
    IN  [ eta |-> before.eta + segment.eta_minutes,
          distance |-> before.distance + segment.distance_meters ]

\* RouteETAsView.get for one bus row with a non-empty list of upcoming stops
NextStopsOfBus(bus_location, speed, upcoming_stops, outcome) ==
  LET from_provider ==
        get_etas_to_multiple_stops(bus_location, upcoming_stops, outcome).results
      speed_kmh == SpeedOrDefault(speed)
      results ==
        IF from_provider # << >> THEN from_provider
        ELSE [ i \in 1..Len(upcoming_stops) |->
                 LET c == FallbackCumulative(bus_location, upcoming_stops, speed_kmh, i) IN
                 [ stop_id |-> upcoming_stops[i].stop_id,
                   eta_minutes |-> RoundTo(c.eta, 10),
                   distance_meters |-> RoundTo(c.distance, 10) ] ]
      n == IF Len(upcoming_stops) < Len(results) THEN Len(upcoming_stops) ELSE Len(results)
  IN  [ i \in 1..n |->
          [ stop_id |-> results[i].stop_id,
            sequence |-> upcoming_stops[i].sequence,
            eta_minutes |-> results[i].eta_minutes,
            distance_meters |-> results[i].distance_meters ] ]
\* ------------------------------------------------- batch ETA specification
BatchGeometries == {"line", "zigzag", "same"}

StopLatitude(geometry, i) ==
  IF geometry = "line" THEN 10 + 3 * i
  ELSE IF geometry = "zigzag" THEN (IF i % 2 = 1 THEN 10 ELSE 40)
  ELSE 10

UpcomingStops(n, geometry) ==
  [ i \in 1..n |-> [ sequence |-> i, stop_id |-> 100 + i,
                     latitude |-> StopLatitude(geometry, i), longitude |-> 1 ] ]

LegPatterns ==
  { << >>,
    << [distance |-> 5004, duration |-> 62] >>,
    << [distance |-> 12000, duration |-> 200], [distance |-> 0, duration |-> 0] >> }

BatchOutcomes == {Unavailable} \cup { LegsRoute(pattern) : pattern \in LegPatterns }

BatchCall(lat, speed, n, geometry, outcome) ==
  [ op |-> "batch",
    bus_location |-> [latitude |-> lat, longitude |-> 1],
    speed |-> speed,
    upcoming_stops |-> UpcomingStops(n, geometry),
    outcome |-> outcome ]

InitBatch ==
  /\ buses = [b \in Buses |-> [route_id |-> NULL, status |-> "inactive"]]
  /\ bus_locations = << >>
  /\ route_stops = InitRouteStops
  /\ response = Resp("none", 0, 0, NULL)
  /\ \E lat \in {10, 13}, speed \in {NULL, 5000}, n \in 1..MaxBatch,
        geometry \in BatchGeometries, outcome \in BatchOutcomes :
       call = BatchCall(lat, speed, n, geometry, outcome)
  /\ position = NoPosition
  /\ eta_results = << >>
  /\ inflight = << >>

ComputeBatch ==
  /\ eta_results = << >>
  /\ eta_results' = NextStopsOfBus(call.bus_location, call.speed,
                                   call.upcoming_stops, call.outcome)
  /\ UNCHANGED << buses, bus_locations, route_stops, response, call, position,
                  inflight >>

NextBatch == ComputeBatch

SpecBatch == InitBatch /\ [][NextBatch]_vars

BatchDone == eta_results # << >>

OnProviderPath == call.outcome.available /\ call.outcome.legs # << >>

\* C13: for any vehicle fix and any non-empty ordered list of upcoming stops
\* the batch ETA result has exactly one entry per input stop, in input order,
\* each entry carrying the id of the stop at the same position, on the
\* multi-waypoint path and on the fallback path.
C13_OneEntryPerStop ==
  BatchDone =>
    /\ Len(eta_results) = Len(call.upcoming_stops)
    /\ \A i \in 1..Len(eta_results) :
         eta_results[i].stop_id = call.upcoming_stops[i].stop_id

\* C14: in a batch ETA result, on both paths, the distance and the ETA of each
\* entry are greater than or equal to those of the entry before it.
C14_BatchNonDecreasing ==
  BatchDone =>
    \A i \in 2..Len(eta_results) :
      /\ eta_results[i].distance_meters >= eta_results[i - 1].distance_meters
      /\ eta_results[i].eta_minutes >= eta_results[i - 1].eta_minutes

\* C14 witness: a result of the multi-waypoint path with at least three
\* entries whose second leg has length 0 after a first leg of 1200 m.
C14_Witness ==
  /\ BatchDone
  /\ OnProviderPath
  /\ Len(eta_results) >= 3
  /\ eta_results[1].distance_meters = 12000
  /\ eta_results[2].distance_meters = 12000
  /\ eta_results[3].distance_meters = 24000
  /\ eta_results[3].eta_minutes > eta_results[2].eta_minutes
\* ---------------------------------------------------------------- ETA views
AT_STOP_THRESHOLD_etas == 1500   \* 150 meters
ARRIVING_ETA == 100              \* 1 minute
APPROACHING_ETA == 300           \* 3 minutes
InvalidStop == 9                 \* a stop_id with no row in stops

\* table stops: latitude and longitude of a stop
StopRow(stop_id) ==
  [ stop_id |-> stop_id,
    latitude |-> IF stop_id = 1 THEN 10 ELSE 35,
    longitude |-> 1 ]

\* table display_units: the stop of a display
DisplayStop(display_id) == 1

\* "if not bus['latitude'] or not bus['longitude']": NULL and 0 both count
Falsy(x) == x = NULL \/ x = 0

\* the values used for one bus row when nothing replaces a failed call
EtaResultOf_no_fallback(bus, stop, outcome) ==
  LET got == get_eta_to_stop(outcome) IN
  IF got.result # None
  THEN [ attempts |-> got.attempts, fallback |-> FALSE,
         eta_minutes |-> Get(got.result).eta_minutes,
         distance_meters |-> Get(got.result).distance_meters ]
  ELSE [ attempts |-> got.attempts, fallback |-> FALSE,
         eta_minutes |-> 0, distance_meters |-> 0 ]

\* eta_result of StopETAsView.get / DisplayContentView.get for one bus row:
\* the provider's answer, or fallback_eta when there is none
EtaResultOf(bus, stop, outcome) ==
  LET got == get_eta_to_stop(outcome) IN
  IF got.result # None
  THEN [ attempts |-> got.attempts, fallback |-> FALSE,
         eta_minutes |-> Get(got.result).eta_minutes,
         distance_meters |-> Get(got.result).distance_meters ]
  ELSE LET fb == fallback_eta(bus.latitude, bus.longitude,
                              stop.latitude, stop.longitude,
                              SpeedOrDefault(bus.speed))
       IN  [ attempts |-> got.attempts, fallback |-> TRUE,
             eta_minutes |-> fb.eta_minutes,
             distance_meters |-> fb.distance_meters ]

\* the classification that never reports "arrived"
arrival_status_by_eta(distance_to_stop, eta_minutes) ==
  IF eta_minutes <= ARRIVING_ETA
  THEN [ arrival_status |-> "arriving", eta_minutes |-> eta_minutes,
         distance_meters |-> distance_to_stop ]
  ELSE IF eta_minutes <= APPROACHING_ETA
  THEN [ arrival_status |-> "approaching", eta_minutes |-> eta_minutes,
         distance_meters |-> distance_to_stop ]
  ELSE [ arrival_status |-> "on-route", eta_minutes |-> eta_minutes,
         distance_meters |-> distance_to_stop ]

arrival_status(distance_to_stop, eta_minutes) ==
  IF distance_to_stop <= AT_STOP_THRESHOLD_etas
  THEN [ arrival_status |-> "arrived", eta_minutes |-> 0, distance_meters |-> 0 ]
  ELSE IF eta_minutes <= ARRIVING_ETA
  THEN [ arrival_status |-> "arriving", eta_minutes |-> eta_minutes,
         distance_meters |-> distance_to_stop ]
  ELSE IF eta_minutes <= APPROACHING_ETA
  THEN [ arrival_status |-> "approaching", eta_minutes |-> eta_minutes,
         distance_meters |-> distance_to_stop ]
  ELSE [ arrival_status |-> "on-route", eta_minutes |-> eta_minutes,
         distance_meters |-> distance_to_stop ]

\* route_sequences: route_id -> sequence_number of the stop on that route
RoutesAtStop(stop_id) == { rs \in route_stops : rs.stop_id = stop_id }

\* The joined rows (buses JOIN routes LEFT JOIN bus_locations, active buses on
\* the routes of the stop) the loop does not skip, as indices of
\* bus_locations.  A bus without a location row joins with NULL coordinates
\* and is skipped.
ListedRows(stop_id) ==
  { i \in 1..Len(bus_locations) :
      LET row == bus_locations[i]
          b == buses[row.bus_id]
      IN  /\ b.status = "active"
          /\ \E rs \in RoutesAtStop(stop_id) :
               /\ rs.route_id = b.route_id
               /\ ~(OrZero(row.current_stop_sequence) > rs.sequence_number)
          /\ ~Falsy(row.latitude)
          /\ ~Falsy(row.longitude) }

RECURSIVE AscendingSeq(_)
AscendingSeq(S) ==
  IF S = {} THEN << >>
  ELSE LET m == CHOOSE x \in S : \A y \in S : x <= y
       IN  << m >> \o AscendingSeq(S \ {m})

\* the loop over the joined rows: for each row kept, the values used and the
\* entry appended to etas
UpcomingBuses(stop_id, outcomes) ==
  LET kept == AscendingSeq(ListedRows(stop_id))
      stop == StopRow(stop_id)
  IN  [ k \in 1..Len(kept) |->
          LET row == bus_locations[kept[k]]
              eta_result == EtaResultOf(row, stop, outcomes[kept[k]])
              shown == arrival_status(eta_result.distance_meters,
                                      eta_result.eta_minutes)
          IN  [ row |-> kept[k],
                attempts |-> eta_result.attempts,
                fallback |-> eta_result.fallback,
                eta_minutes |-> eta_result.eta_minutes,
                distance_meters |-> eta_result.distance_meters,
                entry |-> [ bus_id |-> row.bus_id,
                            route_id |-> buses[row.bus_id].route_id,
                            eta_minutes |-> shown.eta_minutes,
                            distance_meters |-> shown.distance_meters,
                            arrival_status |-> shown.arrival_status ] ] ]

RECURSIVE InsertByEta(_, _)
InsertByEta(e, sorted) ==
  IF sorted = << >> THEN << e >>
  ELSE IF Head(sorted).eta_minutes <= e.eta_minutes
       THEN << Head(sorted) >> \o InsertByEta(e, Tail(sorted))
       ELSE << e >> \o sorted

\* etas.sort(key=lambda x: x['eta_minutes']): stable
RECURSIVE SortByEta(_)
SortByEta(l) ==
  IF l = << >> THEN << >>
  ELSE InsertByEta(l[Len(l)], SortByEta(SubSeq(l, 1, Len(l) - 1)))

EtaResp(op, id, status, etas) ==
  [ op |-> op, bus_id |-> id, status |-> status, current_stop_sequence |-> NULL,
    etas |-> etas ]

EtaCall(op, id, outcomes) == [ op |-> op, id |-> id, outcomes |-> outcomes ]

\* GET /api/stops/{stop_id}/etas/
StopETAsView_get(stop_id, outcomes) ==
  /\ UNCHANGED << buses, bus_locations, route_stops, position, inflight >>
  /\ call' = EtaCall("stop-etas", stop_id, outcomes)
  /\ IF stop_id \notin StopIds THEN
       /\ response' = EtaResp("stop-etas", stop_id, 404, << >>)
       /\ eta_results' = << >>
     ELSE
       LET log == UpcomingBuses(stop_id, outcomes) IN
       /\ eta_results' = log
       /\ response' = EtaResp("stop-etas", stop_id, 200,
                              SortByEta([ k \in 1..Len(log) |-> log[k].entry ]))

\* GET /api/displays/{id}/content/ : the upcoming_buses part
DisplayContentView_get(display_id, outcomes) ==
  /\ UNCHANGED << buses, bus_locations, route_stops, position, inflight >>
  /\ call' = EtaCall("display", display_id, outcomes)
  /\ LET log == UpcomingBuses(DisplayStop(display_id), outcomes) IN
     /\ eta_results' = log
     /\ response' = EtaResp("display", display_id, 200,
                            SortByEta([ k \in 1..Len(log) |-> log[k].entry ]))
\* SELECT ... FROM route_stops rs JOIN stops s ... WHERE rs.route_id = r ORDER BY
\* rs.sequence_number, kept when sequence_number > bus_sequence
\* the stops at or after the pointer
UpcomingOf_inclusive(route_id, bus_sequence) ==
  LET all == StopsOfRoute(route_id)
      ahead(st) == st.sequence >= bus_sequence
      kept == SelectSeq(all, ahead)
  IN  [ i \in 1..Len(kept) |->
          [ sequence |-> kept[i].sequence, stop_id |-> kept[i].stop_id,
            latitude |-> StopRow(kept[i].stop_id).latitude,
            longitude |-> StopRow(kept[i].stop_id).longitude ] ]

UpcomingOf(route_id, bus_sequence) ==
  LET all == StopsOfRoute(route_id)
      ahead(st) == st.sequence > bus_sequence
      kept == SelectSeq(all, ahead)
  IN  [ i \in 1..Len(kept) |->
          [ sequence |-> kept[i].sequence, stop_id |-> kept[i].stop_id,
            latitude |-> StopRow(kept[i].stop_id).latitude,
            longitude |-> StopRow(kept[i].stop_id).longitude ] ]

\* rows of active buses of the route that have coordinates and upcoming stops
RouteRows(route_id) ==
  { i \in 1..Len(bus_locations) :
      LET row == bus_locations[i] IN
      /\ buses[row.bus_id].status = "active"
      /\ buses[row.bus_id].route_id = route_id
      /\ ~Falsy(row.latitude)
      /\ ~Falsy(row.longitude)
      /\ UpcomingOf(route_id, OrZero(row.current_stop_sequence)) # << >> }

\* GET /api/routes/{route_id}/etas/
RouteETAsView_get(route_id, outcomes) ==
  /\ UNCHANGED << buses, bus_locations, route_stops, position, inflight >>
  /\ call' = EtaCall("route-etas", route_id, outcomes)
  /\ IF route_id \notin Routes THEN
       /\ response' = EtaResp("route-etas", route_id, 404, << >>)
       /\ eta_results' = << >>
     ELSE
       LET kept == AscendingSeq(RouteRows(route_id))
           log == [ k \in 1..Len(kept) |->
                    LET row == bus_locations[kept[k]]
                        bus_sequence == OrZero(row.current_stop_sequence)
                        upcoming_stops == UpcomingOf(route_id, bus_sequence)
                        bus_location == [ latitude |-> row.latitude,
                                          longitude |-> row.longitude ]
                        batch == get_etas_to_multiple_stops(
                                   bus_location, upcoming_stops, outcomes[kept[k]])
                    IN  [ row |-> kept[k],
                          attempts |-> batch.attempts,
                          fallback |-> batch.results = << >>,
                          entry |-> [ bus_id |-> row.bus_id,
                                      current_stop_sequence |-> bus_sequence,
                                      next_stops |->
                                        NextStopsOfBus(bus_location, row.speed,
                                                       upcoming_stops,
                                                       outcomes[kept[k]]) ] ] ]
       IN
       /\ eta_results' = log
       /\ response' = EtaResp("route-etas", route_id, 200,
                              [ k \in 1..Len(log) |-> log[k].entry ])

\* one pass of the loop of get_bus_position_on_route: the provider's answer
\* for the stop, or the haversine distance with the 30% buffer at 25 km/h
\* (kept unrounded by the source; here at the resolution of the units)
MeasureStop(bus_location, stop, outcome) ==
  LET got == get_eta_to_stop(outcome) IN
  IF got.result # None
  THEN [ stop_id |-> stop.stop_id, attempts |-> got.attempts, fallback |-> FALSE,
         distance |-> Get(got.result).distance_meters,
         eta |-> Get(got.result).eta_minutes ]
  ELSE LET dist == haversine_distance(bus_location.latitude, bus_location.longitude,
                                      stop.latitude, stop.longitude)
       IN  [ stop_id |-> stop.stop_id, attempts |-> got.attempts, fallback |-> TRUE,
             distance |-> RoundRatio(adjusted_distance(dist), 10, 1),
             eta |-> RoundRatio(adjusted_distance(dist) * 60,
                                10 * DEFAULT_SPEED, 1) ]

\* get_bus_position_on_route for a fix on route_id, the provider answering
\* outcomes[stop_id] for each stop
ResolveMeasured(route_id, latitude, outcomes) ==
  LET stops == StopsOfRoute(route_id)
      bus_location == [ latitude |-> latitude, longitude |-> 1 ]
      log == [ i \in 1..Len(stops) |->
                 MeasureStop(bus_location, StopRow(stops[i].stop_id),
                             outcomes[stops[i].stop_id]) ]
      measured == [ sid \in { stops[i].stop_id : i \in 1..Len(stops) } |->
                      LET m == CHOOSE x \in { log[i] : i \in 1..Len(log) } :
                                 x.stop_id = sid
                      IN  [ distance |-> m.distance, eta |-> m.eta ] ]
  IN
  /\ UNCHANGED << buses, bus_locations, route_stops, inflight >>
  /\ call' = EtaCall("resolve", latitude, outcomes)
  /\ eta_results' = log
  /\ position' = get_bus_position_on_route(measured, stops)
  /\ response' = EtaResp("resolve", route_id, 200, << >>)

\* ------------------------------------------------------ ETA specification
\* Rows of bus_locations the views are run on: rows as location updates and
\* start-trip leave them, for two buses of route 1.
EtaRows ==
  { LocationRow(1, 12, 1, 0, 0, NULL),
    LocationRow(1, 20, 1, 5000, 0, 2),
    LocationRow(2, 20, 1, 0, 0, 1),
    LocationRow(2, 12, 1, 5000, 0, 0),
    LocationRow(2, 0, 0, 0, 0, 0) }

EtaTables ==
  {<< >>} \cup { << r >> : r \in EtaRows } \cup { << r, q >> : r, q \in EtaRows }

ProviderOutcomes ==
  { Unavailable,
    Route(1500, 200),      \* 150.0 m, 3.3 min
    Route(1506, 60),       \* 150.6 m, 1.0 min
    Route(8000, 180),      \* 800.0 m, 3.0 min
    Route(8000, 186) }     \* 800.0 m, 3.1 min

InitEta ==
  /\ buses \in { [b \in Buses |-> [route_id |-> 1,
                                   status |-> IF b = 1 THEN "active" ELSE st]] :
                   st \in {"active", "inactive"} }
  /\ bus_locations \in EtaTables
  /\ \E p1, p2 \in BOOLEAN :
       route_stops = { [route_id |-> 1, stop_id |-> 1, sequence_number |-> 1,
                        passed |-> p1],
                       [route_id |-> 1, stop_id |-> 2, sequence_number |-> 2,
                        passed |-> p2] }
  /\ response = Resp("none", 0, 0, NULL)
  /\ call = NoCall
  /\ position = NoPosition
  /\ eta_results = << >>
  /\ inflight = << >>

\* The views and the resolver only read the tables, so the result of a call
\* does not depend on the calls before it: each behaviour makes one call.
StopETAs ==
  /\ response.op = "none"
  /\ \E stop_id \in StopIds \cup {InvalidStop} :
       \E outcomes \in [ ListedRows(stop_id) -> ProviderOutcomes ] :
         StopETAsView_get(stop_id, outcomes)

DisplayContent ==
  /\ response.op = "none"
  /\ \E outcomes \in [ ListedRows(DisplayStop(1)) -> ProviderOutcomes ] :
       DisplayContentView_get(1, outcomes)

RouteETAs ==
  /\ response.op = "none"
  /\ \E route_id \in {1, InvalidRoute} :
       \E outcomes \in [ RouteRows(route_id) -> BatchOutcomes ] :
         RouteETAsView_get(route_id, outcomes)

\* the resolver reads no location row: called on the empty table
PositionOnRoute ==
  /\ response.op = "none"
  /\ bus_locations = << >>
  /\ \E latitude \in {12, 20}, outcomes \in [ StopIds -> ProviderOutcomes ] :
       ResolveMeasured(1, latitude, outcomes)

NextEta == StopETAs \/ DisplayContent \/ RouteETAs \/ PositionOnRoute

SpecEta == InitEta /\ [][NextEta]_vars
\* ------------------------------------------------- vocabulary of ETA claims
Ran(op) == response.op = op /\ response.status = 200

RanStopList == Ran("stop-etas") \/ Ran("display")

\* the stop a stop-list call was about
CalledStop == IF response.op = "display" THEN DisplayStop(call.id) ELSE call.id

\* the provider's answer in the units of the result: whole meters, tenths of
\* a minute
Within(x, lo, hi) == lo <= x /\ x <= hi

ProviderValuesUsed(item, outcome) ==
  /\ ~item.fallback
  /\ WithinHalf(item.distance_meters, outcome.distance, 10)
  /\ item.eta_minutes % 10 = 0
  /\ Within(6 * item.eta_minutes - 10 * outcome.duration, -30, 30)

\* 1.3 times the straight-line distance and the time for it at speed, in the
\* units of the result
FallbackValuesUsed(item, row, stop) ==
  LET straight == Abs(stop.latitude - row.latitude) * METERS_PER_STEP
      speed == IF row.speed # NULL /\ row.speed > 0 THEN row.speed ELSE 2500
  IN  /\ item.fallback
      /\ item.distance_meters % 10 = 0
      /\ Within(10 * item.distance_meters - 13 * straight, -50, 50)
      /\ item.eta_minutes % 10 = 0
      /\ Within(10 * speed * item.eta_minutes - 13 * 60 * straight,
                -50 * speed, 50 * speed)

\* C11: in every operation that needs a distance (position resolver, stop
\* ETAs, route ETAs, display content) the live provider is attempted first;
\* whenever it yields Unavailable the fallback estimate is used in its place
\* and the operation still returns a normal result with nothing dropped.
C11_FallbackOnUnavailable ==
  /\ RanStopList =>
       /\ Len(eta_results) = Cardinality(ListedRows(CalledStop))
       /\ Len(response.etas) = Len(eta_results)
       /\ \A k \in 1..Len(eta_results) :
            LET item == eta_results[k]
                outcome == call.outcomes[item.row]
            IN  /\ item.attempts >= 1
                /\ outcome.available => ProviderValuesUsed(item, outcome)
                /\ ~outcome.available =>
                     FallbackValuesUsed(item, bus_locations[item.row],
                                        StopRow(CalledStop))
  /\ Ran("route-etas") =>
       /\ Len(eta_results) = Cardinality(RouteRows(call.id))
       /\ Len(response.etas) = Len(eta_results)
       /\ \A k \in 1..Len(eta_results) :
            LET item == eta_results[k]
                outcome == call.outcomes[item.row]
                row == bus_locations[item.row]
                upcoming == UpcomingOf(call.id, OrZero(row.current_stop_sequence))
            IN  /\ item.attempts >= 1
                /\ Len(item.entry.next_stops) = Len(upcoming)
                /\ ~outcome.available =>
                     /\ item.fallback
                     /\ FallbackValuesUsed(
                          [ fallback |-> TRUE,
                            distance_meters |-> item.entry.next_stops[1].distance_meters,
                            eta_minutes |-> item.entry.next_stops[1].eta_minutes ],
                          row, upcoming[1])
  /\ Ran("resolve") =>
       /\ position # NoPosition
       /\ Len(eta_results) = Len(StopsOfRoute(1))
       /\ \A k \in 1..Len(eta_results) :
            LET item == eta_results[k]
                outcome == call.outcomes[item.stop_id]
            IN  /\ item.attempts >= 1
                /\ outcome.available <=> ~item.fallback
                /\ ~outcome.available =>
                     10 * item.distance =
                       13 * Abs(StopRow(item.stop_id).latitude - call.id)
                          * METERS_PER_STEP

\* C11 witness: a stop ETA list with an entry for a bus whose provider call
\* was Unavailable, the entry carrying the fallback estimate (650 m).
C11_Witness ==
  /\ Ran("stop-etas")
  /\ \E k \in 1..Len(eta_results) :
       /\ ~call.outcomes[eta_results[k].row].available
       /\ eta_results[k].fallback
       /\ eta_results[k].distance_meters = 6500
       /\ \E j \in 1..Len(response.etas) :
            /\ response.etas[j] = eta_results[k].entry
            /\ response.etas[j].distance_meters = 6500

\* C12: for each point pair (a vehicle fix and a stop or stop list it is
\* measured against) an operation calls the live provider at most once; after
\* a failed call the next step for that pair is the fallback computation.
C12_NoRetry ==
  (RanStopList \/ Ran("route-etas") \/ Ran("resolve")) =>
    \A k \in 1..Len(eta_results) :
      /\ eta_results[k].attempts <= 1
      /\ eta_results[k].fallback => eta_results[k].attempts = 1

\* C12 witness: a resolver call in which the provider failed for one stop and
\* answered for the other; the failed pair was attempted once and then
\* estimated.
C12_Witness ==
  /\ Ran("resolve")
  /\ \E k, j \in 1..Len(eta_results) :
       /\ eta_results[k].fallback
       /\ eta_results[k].attempts = 1
       /\ ~eta_results[j].fallback

\* C15: arrival status is a function of the distance and ETA actually used,
\* from the provider or the fallback: distance <= 150 m gives "arrived" with
\* ETA and distance reported as 0; otherwise ETA <= 1 gives "arriving",
\* ETA <= 3 gives "approaching", anything else "on-route" (stop ETAs and
\* display content alike).
C15_ArrivalStatus ==
  RanStopList =>
    \A k \in 1..Len(eta_results) :
      LET d == eta_results[k].distance_meters
          e == eta_results[k].eta_minutes
          entry == eta_results[k].entry
      IN  /\ \E j \in 1..Len(response.etas) : response.etas[j] = entry
          /\ IF d <= 150 * 10
             THEN /\ entry.arrival_status = "arrived"
                  /\ entry.eta_minutes = 0
                  /\ entry.distance_meters = 0
             ELSE /\ entry.distance_meters = d
                  /\ entry.eta_minutes = e
                  /\ entry.arrival_status =
                       IF e <= 100 THEN "arriving"
                       ELSE IF e <= 300 THEN "approaching" ELSE "on-route"

\* C15 witness: one display list with an "arrived" entry from the fallback
\* (130 m) and an "arriving" entry from the provider (151 m, 1.0 min).
C15_Witness ==
  /\ Ran("display")
  /\ \E k, j \in 1..Len(eta_results) :
       /\ eta_results[k].fallback
       /\ eta_results[k].distance_meters = 1300
       /\ eta_results[k].entry.arrival_status = "arrived"
       /\ ~eta_results[j].fallback
       /\ eta_results[j].distance_meters = 1510
       /\ eta_results[j].eta_minutes = 100
       /\ eta_results[j].entry.arrival_status = "arriving"

\* C20: a bus is omitted from a stop's ETA list whenever that stop's passed
\* flag is true on the bus's route, and it is listed for that stop while the
\* flag is false (as it is after a start-trip).
C20_PassedStopOmitsBus ==
  Ran("stop-etas") =>
    \A rs \in RoutesAtStop(call.id) :
      \A i \in 1..Len(bus_locations) :
        LET row == bus_locations[i]
            located == ~Falsy(row.latitude) /\ ~Falsy(row.longitude)
            on_route == /\ buses[row.bus_id].status = "active"
                        /\ buses[row.bus_id].route_id = rs.route_id
            listed == \E k \in 1..Len(eta_results) : eta_results[k].row = i
        IN  (on_route /\ located) => (listed <=> ~rs.passed)
\* ------------------------------------------- concurrent location requests
\* The handlers run without a lock or a transaction (the helpers of
\* src/api/db.py execute one statement per cursor on Django's autocommit
\* connection), so the statements of requests served by different workers
\* interleave.  Here a location request
\* advances one database statement at a time; start-trip is taken whole.

Requests == 1..2

NoRequest ==
  [ pc |-> "idle", bus_id |-> 0, latitude |-> NULL, longitude |-> NULL,
    route_id |-> NULL, current_stop_seq_from_db |-> NULL,
    current_stop_sequence |-> NULL, read_len |-> 0, row |-> 0, status |-> 0 ]

Finish(q, code) ==
  /\ inflight' = [inflight EXCEPT ![q].pc = "done", ![q].status = code]
  /\ response' = Resp("location", inflight[q].bus_id, code, NULL)

\* request.data.get('latitude') / ('longitude') and the 400 return
Receive(q, bus_id, latitude, longitude) ==
  /\ inflight[q].pc = "idle"
  /\ \A o \in 1..(q - 1) : inflight[o].pc # "idle"
  /\ IF latitude = NULL \/ longitude = NULL
     THEN /\ inflight' = [inflight EXCEPT ![q] =
                 [NoRequest EXCEPT !.pc = "done", !.bus_id = bus_id,
                                   !.status = 400]]
          /\ response' = Resp("location", bus_id, 400, NULL)
     ELSE /\ inflight' = [inflight EXCEPT ![q] =
                 [NoRequest EXCEPT !.pc = "received", !.bus_id = bus_id,
                                   !.latitude = latitude,
                                   !.longitude = longitude]]
          /\ UNCHANGED response
  /\ UNCHANGED << buses, bus_locations, route_stops, call, position,
                  eta_results >>

\* the SELECT over buses JOIN bus_locations: route and last pointer
ReadBus(q) ==
  LET r == inflight[q] IN
  /\ r.pc = "received"
  /\ IF JoinRows(r.bus_id) = {}
     THEN Finish(q, 404)
     ELSE /\ \E i \in JoinRows(r.bus_id) :
               inflight' = [inflight EXCEPT ![q] =
                 [r EXCEPT !.pc = "read",
                           !.route_id = buses[r.bus_id].route_id,
                           !.current_stop_seq_from_db =
                              OrZero(bus_locations[i].current_stop_sequence),
                           !.read_len = Len(bus_locations)]]
          /\ UNCHANGED response
  /\ UNCHANGED << buses, bus_locations, route_stops, call, position,
                  eta_results >>

\* the SELECT of the route's stops and the resolver call
ResolvePosition(q) ==
  LET r == inflight[q]
      stops == IF r.route_id # NULL THEN StopsOfRoute(r.route_id) ELSE << >>
  IN
  /\ r.pc = "read"
  /\ IF stops # << >> /\ CallRaisesTypeError(position_call_kwargs,
                                             get_bus_position_on_route_params)
     THEN Finish(q, 500)
     ELSE /\ inflight' = [inflight EXCEPT ![q].pc = "resolved",
                                          ![q].current_stop_sequence = NULL]
          /\ UNCHANGED response
  /\ UNCHANGED << buses, bus_locations, route_stops, call, position,
                  eta_results >>

\* INSERT INTO bus_locations ... ON DUPLICATE KEY UPDATE
WriteLocation(q) ==
  LET r == inflight[q] IN
  /\ r.pc = "resolved"
  /\ Len(bus_locations) < MaxRows
  /\ bus_locations' = UpsertLocation(
       LocationRow(r.bus_id, r.latitude, r.longitude, 0, 0,
                   r.current_stop_sequence))
  /\ inflight' = [inflight EXCEPT ![q].pc = "written",
                                  ![q].row = Len(bus_locations) + 1]
  /\ UNCHANGED << buses, route_stops, response, call, position, eta_results >>

\* "Get the location record" and the 201 response
Respond(q) ==
  LET r == inflight[q] IN
  /\ r.pc = "written"
  /\ \E j \in JoinRows(r.bus_id) :
       response' = Resp("location", r.bus_id, 201,
                        bus_locations[j].current_stop_sequence)
  /\ inflight' = [inflight EXCEPT ![q].pc = "done", ![q].status = 201]
  /\ UNCHANGED << buses, bus_locations, route_stops, call, position,
                  eta_results >>

InitConcurrent ==
  /\ buses = [b \in Buses |-> [route_id |-> NULL, status |-> "inactive"]]
  /\ bus_locations = << >>
  /\ route_stops = InitRouteStops
  /\ response = Resp("none", 0, 0, NULL)
  /\ call = NoCall
  /\ position = NoPosition
  /\ eta_results = << >>
  /\ inflight = [q \in Requests |-> NoRequest]

ReceiveLocation ==
  \E q \in Requests, b \in Buses, c \in CoordInputs : Receive(q, b, c[1], c[2])

ReadBusStep == \E q \in Requests : ReadBus(q)

ResolveStep == \E q \in Requests : ResolvePosition(q)

WriteStep == \E q \in Requests : WriteLocation(q)

RespondStep == \E q \in Requests : Respond(q)

NextConcurrent ==
  \/ ReceiveLocation
  \/ ReadBusStep
  \/ ResolveStep
  \/ WriteStep
  \/ RespondStep
  \/ StartTrip

SpecConcurrent == InitConcurrent /\ [][NextConcurrent]_vars

\* ------------------------------------------ vocabulary of concurrent claims
Written(q) == inflight[q].pc \in {"written", "done"} /\ inflight[q].row > 0

\* the row a completed start-trip of the bus stored
StartTripRow(i, bus_id) ==
  /\ bus_locations[i].bus_id = bus_id
  /\ bus_locations[i].latitude = 0
  /\ bus_locations[i].current_stop_sequence = 0

\* a start-trip of the request's bus completed between the request's read
\* and its write
Overtaken(q) ==
  \E i \in (inflight[q].read_len + 1)..(inflight[q].row - 1) :
    StartTripRow(i, inflight[q].bus_id)

\* C16: two location updates for the same vehicle never interleave: of two
\* updates that both wrote, one wrote its row before the other read the last
\* pointer (read, resolve and write are atomic with respect to the other
\* update).
C16_UpdatesNeverInterleave ==
  \A q1, q2 \in Requests :
    (/\ q1 # q2
     /\ Written(q1) /\ Written(q2)
     /\ inflight[q1].bus_id = inflight[q2].bus_id)
    => \/ inflight[q1].row <= inflight[q2].read_len
       \/ inflight[q2].row <= inflight[q1].read_len

\* C18: start-trip is a hard reset even against a location update of the same
\* vehicle that began earlier: once start-trip has completed, the in-flight
\* update stores no pointer other than 0 and sets no passed flag of the route
\* (stated for an update that read the bus on another route than the one the
\* start-trip put it on, so that what it writes comes from before the reset).
C18_StartTripBeatsInflightUpdate ==
  \A q \in Requests :
    (/\ Written(q) /\ Overtaken(q)
     /\ inflight[q].route_id # buses[inflight[q].bus_id].route_id) =>
      /\ bus_locations[inflight[q].row].current_stop_sequence = 0
      /\ \A rs \in route_stops :
           rs.route_id = buses[inflight[q].bus_id].route_id => ~rs.passed
\* ------------------------------------------------ resolver and marking rule
\* The position resolver followed by the marking block of the location
\* handler (views_buses.py:506-541), on every fix and every setting of the
\* flags of route 1.
FlaggedRouteStops ==
  { { [route_id |-> 1, stop_id |-> s, sequence_number |-> s, passed |-> f[s]] :
        s \in StopIds } : f \in [StopIds -> BOOLEAN] }

InitMarking ==
  /\ buses = [b \in Buses |-> [route_id |-> 1, status |-> "active"]]
  /\ bus_locations = << >>
  /\ route_stops \in FlaggedRouteStops
  /\ response = Resp("none", 0, 0, NULL)
  /\ \E f \in [StopIds -> Readings] :
       call = [ route_stops |-> StopsOfRoute(1), bus_location |-> f,
                stop_seq |-> 0 ]
  /\ position = NoPosition
  /\ eta_results = << >>
  /\ inflight = << >>

ResolveAndMark ==
  /\ position = NoPosition
  /\ position' = get_bus_position_on_route(call.bus_location, call.route_stops)
  /\ route_stops' = MarkPassedStop(1, position'.current_stop_sequence,
                                   position'.eta_to_next)
  /\ UNCHANGED << buses, bus_locations, response, call, eta_results, inflight >>

NextMarking == ResolveAndMark

SpecMarking == InitMarking /\ [][NextMarking]_vars

C21_OneRecordPerVehicle ==
  \A b \in Buses : Cardinality(RowsOf(bus_locations, b)) <= 1
\* ------------------------------------------------------ route-stop editing
\* RouteStopsView.post, RouteStopDetailView.delete and
\* RouteStopsReorderView.put on the stops of one route.  (route_id, stop_id)
\* is unique in route_stops, so a route-stop of the route is named by its
\* stop_id here where the code uses route_stop_id.

MaxSequenceNumber == 5

StopPool == 1..3

SequenceInputs == {NULL, 0} \cup (1..3)

RouteStopsOf(route_id) == { rs \in route_stops : rs.route_id = route_id }

\* the id lists a reorder request may carry: every stop placed at most twice
RECURSIVE IdLists(_)
IdLists(n) ==
  IF n = 0 THEN { << >> }
  ELSE LET shorter == IdLists(n - 1)
       IN  shorter \cup { Append(l, x) : l \in { k \in shorter : Len(k) = n - 1 },
                                          x \in StopPool }

RouteStopsView_post(admin, route_id, stop_id, sequence_number) ==
  /\ UNCHANGED << buses, bus_locations, call, position, eta_results, inflight >>
  /\ IF ~admin THEN
       /\ response' = Resp("add-stop", route_id, 403, NULL)
       /\ UNCHANGED route_stops
     ELSE IF route_id \notin Routes THEN
       /\ response' = Resp("add-stop", route_id, 404, NULL)
       /\ UNCHANGED route_stops
     ELSE IF \/ stop_id = NULL
             \/ stop_id \notin StopPool
             \/ \E rs \in RouteStopsOf(route_id) : rs.stop_id = stop_id
             \/ sequence_number = NULL
             \/ sequence_number < 1 THEN
       /\ response' = Resp("add-stop", route_id, 400, NULL)
       /\ UNCHANGED route_stops
     ELSE
       /\ \A rs \in RouteStopsOf(route_id) :
            rs.sequence_number < MaxSequenceNumber
       \* shift the stops at or after the position, then insert
       /\ route_stops' =
            { IF rs.route_id = route_id /\ rs.sequence_number >= sequence_number
              THEN [rs EXCEPT !.sequence_number = @ + 1] ELSE rs :
                rs \in route_stops }
            \cup { [ route_id |-> route_id, stop_id |-> stop_id,
                     sequence_number |-> sequence_number, passed |-> FALSE ] }
       /\ response' = Resp("add-stop", route_id, 201, sequence_number)

RouteStopDetailView_delete(admin, route_id, route_stop_id) ==
  /\ UNCHANGED << buses, bus_locations, call, position, eta_results, inflight >>
  /\ IF ~admin THEN
       /\ response' = Resp("remove-stop", route_id, 403, NULL)
       /\ UNCHANGED route_stops
     ELSE IF ~\E rs \in RouteStopsOf(route_id) : rs.stop_id = route_stop_id THEN
       /\ response' = Resp("remove-stop", route_id, 404, NULL)
       /\ UNCHANGED route_stops
     ELSE
       LET route_stop == CHOOSE rs \in RouteStopsOf(route_id) :
                           rs.stop_id = route_stop_id
           deleted_sequence == route_stop.sequence_number
       IN
       /\ route_stops' =
            { IF rs.route_id = route_id /\ rs.sequence_number > deleted_sequence
              THEN [rs EXCEPT !.sequence_number = @ - 1] ELSE rs :
                rs \in route_stops \ {route_stop} }
       /\ response' = Resp("remove-stop", route_id, 204, NULL)

\* "for index, route_stop_id in enumerate(route_stop_ids, start=1)": every
\* listed id is updated in turn, so an id keeps the last index it was given
LastIndex(route_stop_ids, id) ==
  CHOOSE i \in 1..Len(route_stop_ids) :
    /\ route_stop_ids[i] = id
    /\ \A j \in (i + 1)..Len(route_stop_ids) : route_stop_ids[j] # id

RouteStopsReorderView_put(admin, route_id, route_stop_ids) ==
  /\ UNCHANGED << buses, bus_locations, call, position, eta_results, inflight >>
  /\ IF ~admin THEN
       /\ response' = Resp("reorder", route_id, 403, NULL)
       /\ UNCHANGED route_stops
     ELSE IF route_id \notin Routes THEN
       /\ response' = Resp("reorder", route_id, 404, NULL)
       /\ UNCHANGED route_stops
     ELSE IF route_stop_ids = << >> THEN
       /\ response' = Resp("reorder", route_id, 400, NULL)
       /\ UNCHANGED route_stops
     ELSE
       LET existing_ids == { rs.stop_id : rs \in RouteStopsOf(route_id) }
           provided_ids == { route_stop_ids[i] : i \in 1..Len(route_stop_ids) }
       IN
       IF existing_ids # provided_ids THEN
         /\ response' = Resp("reorder", route_id, 400, NULL)
         /\ UNCHANGED route_stops
       ELSE
         /\ route_stops' =
              { IF rs.route_id = route_id
                THEN [rs EXCEPT !.sequence_number =
                                   LastIndex(route_stop_ids, rs.stop_id)]
                ELSE rs : rs \in route_stops }
         /\ response' = Resp("reorder", route_id, 200, NULL)

InitEditing ==
  /\ buses = [b \in Buses |-> [route_id |-> NULL, status |-> "inactive"]]
  /\ bus_locations = << >>
  /\ route_stops = {}
  /\ response = Resp("none", 0, 0, NULL)
  /\ call = NoCall
  /\ position = NoPosition
  /\ eta_results = << >>
  /\ inflight = << >>

AddStop ==
  \E admin \in BOOLEAN, r \in {1, InvalidRoute},
     stop_id \in StopPool \cup {NULL, InvalidStop}, q \in SequenceInputs :
    RouteStopsView_post(admin, r, stop_id, q)

RemoveStop ==
  \E admin \in BOOLEAN, r \in {1, InvalidRoute}, id \in StopPool \cup {InvalidStop} :
    RouteStopDetailView_delete(admin, r, id)

Reorder ==
  \E admin \in BOOLEAN, r \in {1, InvalidRoute}, ids \in IdLists(MaxStops + 1) :
    RouteStopsReorderView_put(admin, r, ids)

NextEditing == AddStop \/ RemoveStop \/ Reorder

SpecEditing == InitEditing /\ [][NextEditing]_vars

\* C22: after any sequence of add-stop, remove-stop and reorder operations
\* on a route, the sequence numbers of its route-stops are exactly 1..N, with
\* no gap and no duplicate.
C22_DenseSequenceNumbers ==
  LET stops == RouteStopsOf(1)
      N == Cardinality(stops)
  IN  /\ { rs.sequence_number : rs \in stops } = 1..N
      /\ \A a, b \in stops : a.sequence_number = b.sequence_number => a = b
\* ---------------------------------------------- failures of a location update
\* C23: a location update for an existing vehicle fails visibly only when
\* latitude or longitude is missing; it is then rejected with a validation
\* error and writes nothing (location records and passed flags unchanged).
C23_FailsOnlyOnMissingCoordinates ==
  [][ \A b \in Buses, c \in CoordInputs, t \in TelemetryInputs, fix \in Fixes :
        BusLocationView_post(b, c[1], c[2], t, fix) =>
          IF c[1] = NULL \/ c[2] = NULL
          THEN /\ response'.status = 400
               /\ UNCHANGED << bus_locations, route_stops >>
          ELSE response'.status = 201 ]_vars
\* ------------------------------------------------- one location update
\* BusLocationView.post applied once to each table state the trip handlers
\* leave behind: buses with or without a route, active or not, and up to two
\* location records written by start-trip (0, 0, pointer 0) or by an update
\* of a bus without stops (pointer NULL).
UpdateRows ==
  { LocationRow(b, 0, 0, 0, 0, 0) : b \in Buses }
    \cup { LocationRow(b, 1, 1, 0, 0, NULL) : b \in Buses }

UpdateTables ==
  { << >> } \cup { << r >> : r \in UpdateRows }
            \cup { << r1, r2 >> : r1 \in UpdateRows, r2 \in UpdateRows }

InitUpdate ==
  /\ buses \in [ Buses -> [ route_id : Routes \cup {NULL},
                            status : {"active", "inactive"} ] ]
  /\ bus_locations \in UpdateTables
  /\ route_stops = InitRouteStops
  /\ response = Resp("none", 0, 0, NULL)
  /\ call = NoCall
  /\ position = NoPosition
  /\ eta_results = << >>
  /\ inflight = << >>

OneLocationUpdate ==
  /\ response.op = "none"
  /\ LocationUpdate

NextUpdate == OneLocationUpdate

SpecUpdate == InitUpdate /\ [][NextUpdate]_vars

\* ------------------------------------------------------- speed and heading
\* C24: the speed and heading stored by a location update always lie in
\* [0, 999.99] and [0, 360]: an out-of-range input is clamped to the nearest
\* bound and the update that carries it is accepted like any other (the
\* answers other than 201 are 400 for missing coordinates, 404 for a bus
\* without a location record and 500 when the resolver call is made; none of
\* them depends on speed or heading).
C24_SpeedHeadingClamped ==
  [][ \A b \in Buses, c \in CoordInputs, t \in TelemetryInputs, fix \in Fixes :
        BusLocationView_post(b, c[1], c[2], t, fix) =>
          /\ \A i \in 1..Len(bus_locations') :
               /\ bus_locations'[i].speed \in 0..99999
               /\ bus_locations'[i].heading \in 0..36000
          /\ response'.status \in {201, 400, 404, 500}
          /\ response'.status = 400 <=> (c[1] = NULL \/ c[2] = NULL)
          /\ response'.status = 404 => JoinRows(b) = {}
          /\ response'.status = 500 => RouteHasStops(b)
          /\ response'.status # 201 => bus_locations' = bus_locations
          /\ response'.status = 201 =>
               LET row == bus_locations'[Len(bus_locations')] IN
               /\ Len(bus_locations') = Len(bus_locations) + 1
               /\ row.speed = IF t.speed = NULL \/ t.speed < 0 THEN 0
                              ELSE IF t.speed > 99999 THEN 99999 ELSE t.speed
               /\ row.heading = IF t.heading = NULL \/ t.heading < 0 THEN 0
                                ELSE IF t.heading > 36000 THEN 36000
                                ELSE t.heading ]_vars

\* C24 witness: an accepted update whose record holds the upper bounds, as
\* stored for the input speed 1200.00 and heading 400.00.
C24_Witness ==
  /\ response.op = "location"
  /\ response.status = 201
  /\ bus_locations # << >>
  /\ bus_locations[Len(bus_locations)].latitude = 1
  /\ bus_locations[Len(bus_locations)].speed = 99999
  /\ bus_locations[Len(bus_locations)].heading = 36000

\* ------------------------------------------------------- empty stop list
\* C25: called with an empty stop list, the resolver returns next_stop = 1,
\* is_at_stop = FALSE and null distance and ETA instead of failing.
C25_EmptyStopListDefault ==
  (Resolved /\ call.route_stops = << >>) =>
    /\ position.next_stop = 1
    /\ position.is_at_stop = FALSE
    /\ position.distance_to_next = NULL
    /\ position.eta_to_next = NULL

\* C25 witness: the resolver has answered a call with no stops.
C25_Witness ==
  /\ Resolved
  /\ call.route_stops = << >>
  /\ position.next_stop = 1
\* ------------------------------------------------------ fallback distances
\* fallback_eta and the resolver's inline fallback applied to a straight-line
\* distance.  The result of haversine_distance is drawn directly, in tenths
\* of a meter, so that distances between whole meters occur.
MaxRawDistance == 120

FallbackSpeeds == {DEFAULT_SPEED, 5000}

InitFallback ==
  /\ buses = [b \in Buses |-> [route_id |-> NULL, status |-> "inactive"]]
  /\ bus_locations = << >>
  /\ route_stops = InitRouteStops
  /\ response = Resp("none", 0, 0, NULL)
  /\ \E d \in 0..MaxRawDistance, v \in FallbackSpeeds :
       call = [ op |-> "fallback", distance |-> d, speed_kmh |-> v ]
  /\ position = NoPosition
  /\ eta_results = << >>
  /\ inflight = << >>

\* both fallbacks for the same pair of points: fallback_eta's result and the
\* distance the resolver computes inline (dist * 1.3, in hundredths of a meter)
ComputeFallback ==
  /\ eta_results = << >>
  /\ eta_results' =
       << [ estimator |-> fallback_estimate(call.distance, call.speed_kmh),
            inline_distance |-> adjusted_distance(call.distance) ] >>
  /\ UNCHANGED << buses, bus_locations, route_stops, response, call, position,
                  inflight >>

NextFallback == ComputeFallback

SpecFallback == InitFallback /\ [][NextFallback]_vars

FallbackDone == eta_results # << >>

\* C26 as stated: the fallback distance is exactly 1.3 times the raw
\* great-circle distance (hence never below it), in the fallback estimator
\* and in the resolver's inline fallback alike.
C26_FallbackExactly13 ==
  FallbackDone =>
    /\ 10 * eta_results[1].estimator.distance_meters = 13 * call.distance
    /\ eta_results[1].estimator.distance_meters >= call.distance
    /\ eta_results[1].inline_distance = 13 * call.distance

\* C26 amended: the resolver's inline fallback distance is exactly 1.3 times
\* the raw great-circle distance (never below it); the fallback estimator
\* returns that product rounded to whole meters, so its distance is within
\* half a meter of 1.3 times the raw distance (and may be below the raw
\* distance for distances under 1.7 m).
C26_FallbackRounded13 ==
  FallbackDone =>
    LET est == eta_results[1].estimator.distance_meters IN
    /\ est % 10 = 0
    /\ 10 * est - 13 * call.distance <= 50
    /\ 13 * call.distance - 10 * est <= 50
    /\ eta_results[1].inline_distance = 13 * call.distance
    /\ eta_results[1].inline_distance >= 10 * call.distance

\* C26 witness: a raw distance of 1.1 m, for which the estimator returns 1 m
\* (1.43 m rounded) while the inline fallback has 1.43 m.
C26_Witness ==
  /\ FallbackDone
  /\ call.distance = 11
  /\ eta_results[1].estimator.distance_meters = 10
  /\ eta_results[1].inline_distance = 143
TwoRouteStops ==
  { { [route_id |-> 1, stop_id |-> 1, sequence_number |-> 1, passed |-> f[1]],
      [route_id |-> 1, stop_id |-> 2, sequence_number |-> 2, passed |-> f[2]],
      [route_id |-> 2, stop_id |-> 1, sequence_number |-> 1, passed |-> f[3]] } :
      f \in [1..3 -> BOOLEAN] }

InitStartTrip ==
  /\ buses \in [ Buses -> [ route_id : Routes \cup {NULL},
                            status : {"active", "inactive"} ] ]
  /\ bus_locations = << >>
  /\ route_stops \in TwoRouteStops
  /\ response = Resp("none", 0, 0, NULL)
  /\ call = NoCall
  /\ position = NoPosition
  /\ eta_results = << >>
  /\ inflight = << >>

OneStartTrip ==
  /\ response.op = "none"
  /\ StartTrip

NextStartTrip == OneStartTrip

SpecStartTrip == InitStartTrip /\ [][NextStartTrip]_vars

\* C30: start-trip resets the passed flags of exactly the route it starts on:
\* the vehicle is (re)assigned to the route named in the request, every flag
\* of that route is cleared whichever vehicle set it, and the flags of every
\* other route, the previously assigned one included, keep their values.
C30_ResetsOnlyStartedRoute ==
  [][ \A b \in Buses, route_in \in Routes \cup {NULL, InvalidRoute} :
        ( /\ BusStartTripView_post(b, route_in)
          /\ response'.status = 200 ) =>
          LET r == IF route_in = NULL THEN buses[b].route_id ELSE route_in IN
          /\ buses'[b] = [ route_id |-> r, status |-> "active" ]
          /\ \A o \in Buses \ {b} : buses'[o] = buses[o]
          /\ \A rs \in route_stops :
               IF rs.route_id = r
               THEN [rs EXCEPT !.passed = FALSE] \in route_stops'
               ELSE rs \in route_stops'
          /\ Cardinality(route_stops') = Cardinality(route_stops) ]_vars

\* C30 witness: a start-trip on route 1 has completed, every flag of route 1
\* is clear, another vehicle is active on route 1, and the flag of route 2
\* is still set.
C30_Witness ==
  /\ response.op = "start-trip"
  /\ response.status = 200
  /\ buses[response.bus_id].route_id = 1
  /\ \E o \in Buses \ {response.bus_id} :
       buses[o].route_id = 1 /\ buses[o].status = "active"
  /\ \A rs \in route_stops : rs.passed <=> rs.route_id = 2
====
